---- MODULE Spec2Model ----
(***************************************************************************)
(* cedit (src/cedit.py): opening files with the configured editor, through *)
(* the configured elevation command when a file needs root.                *)
(*                                                                         *)
(* One run of the program on the "open" command line                      *)
(* cedit <filename>... [-s] [-q] [-- <editor args>]  goes                  *)
(* main -> check_file(s) -> shell_file -> get_editor -> needs_root (per    *)
(* file) -> get_elevcmd -> run_exec.  The other command lines set or list  *)
(* the stored settings (-d, -e, -c, -l, -a) or install and remove the      *)
(* symbolic link of the program (-i, -r); a run that saved settings can be *)
(* followed by a later run.  The environment of the run (the               *)
(* process uid, the file system, the stored settings, the command line,    *)
(* which stat calls fail and how executing a file goes) is drawn in Init;  *)
(* the answers typed at prompts are drawn where the code asks.             *)
(*                                                                         *)
(* Strings.  A file name, a path or a command word is a TLA+ string (\o    *)
(* concatenates).  A stored setting is a string the code splits, so it is  *)
(* a sequence of pieces: the piece " " is one space character, ":" is one  *)
(* colon, every other piece is a run of characters holding neither.        *)
(***************************************************************************)
EXTENDS Integers, Sequences, FiniteSets, TLC

VARIABLES
    uid,          \* os.getuid() of the process
    exefs,        \* file system, executables: path -> "none" | "file" | "link"
    tfs,          \* file system, target paths: path -> [kind, owner, writable]
    statfault,    \* what os.stat raises in needs_root(f), per file name f
    launchenv,    \* how executing a regular file goes, see LaunchOutcome
    settings,     \* EasySettings store, as saved in the configuration file:
                  \* [editor, elevcmd, paths, aliases, options]
    CEDITARGS,    \* global CEDITARGS (arguments of cedit itself)
    EDITORARGS,   \* global EDITORARGS (arguments after "--")
    CEDITPATHS,   \* global CEDITPATHS
    argd,         \* the docopt dictionary main() was called with
    depth,        \* number of main() frames below the current one (alias re-entry)
    pc,           \* position of the run
    filenames,    \* main(): filenames after find_filename
    idx,          \* main()/check_files(): index of the file being looked at
    returns,      \* main(), --shellall: the list `returns`
    batch,        \* shell_file(): its argument (<<>> is None)
    usereditor,   \* shell_file(): usereditor after line 1079
    elevcmdargs,  \* shell_file(): elevcmdargs (<<>>: get_elevcmd was not called)
    finalcmd,     \* shell_file(): finalcmd
    scan,         \* shell_file(): position of the for loop over filenames
    nrlog,        \* the needs_root calls of the current shell_file call
    launched,     \* every run_exec call of the run, in order
    ncalls,       \* number of shell_file calls so far
    exitcode,     \* exit status of the process (-1 while it runs)
    how,          \* how the process ended
    saveok,       \* settings.setsave succeeds
    fsperm,       \* os.symlink / os.remove on the link are permitted
    osenv,        \* os.environ: [user, path]
    bindirs,      \* the directories a link can be installed to that exist
    links,        \* the paths at which a command `cedit` is installed
    runs,         \* number of the run (1 for the first)
    saved,        \* the settings.setsave calls of the run: [opt, val, ok]
    asked,        \* the confirmations of the installer in the run: [what, yes]
    printed       \* what the run reported: message tags and listed settings

vars == <<uid, exefs, tfs, statfault, launchenv, settings, CEDITARGS, EDITORARGS, CEDITPATHS, argd,
          depth, pc, filenames, idx, returns, batch, usereditor, elevcmdargs,
          finalcmd, scan, nrlog, launched, ncalls, exitcode, how,
          saveok, fsperm, osenv, bindirs, links, runs, saved, asked, printed>>

envvars == <<uid, exefs, tfs, statfault, launchenv, settings>>

\* what an open command neither reads nor writes
cfgvars == <<saveok, fsperm, osenv, bindirs, links, runs, saved, asked, printed>>

\* the file system apart from the installed links, and the way calls go
worldvars == <<uid, exefs, tfs, statfault, launchenv, saveok, fsperm, osenv, bindirs>>

(***************************************************************************)
(* Bounds of the model.                                                    *)
(***************************************************************************)
\* most file names on the command line
MaxFiles == 2
\* most runs of the program in a row
MaxRuns == 2
\* main() frames the interpreter allows before RecursionError
MaxDepth == 2

(***************************************************************************)
(* Sequences and strings.                                                  *)
(***************************************************************************)
Range(s) == {s[i] : i \in 1..Len(s)}

SeqsUpTo(S, n) == UNION {[1..k -> S] : k \in 0..n}

RECURSIVE SplitR(_, _, _, _)
SplitR(s, sep, cur, acc) ==
    IF s = <<>> THEN Append(acc, cur)
    ELSE IF Head(s) = sep THEN SplitR(Tail(s), sep, "", Append(acc, cur))
    ELSE SplitR(Tail(s), sep, cur \o Head(s), acc)

\* str.split(sep) with a one-character separator: empty words are kept
SplitOn(s, sep) == SplitR(s, sep, "", <<>>)

\* str.split(): runs of whitespace separate, no empty word is returned
SplitWs(s) == SelectSeq(SplitOn(s, " "), LAMBDA w : w # "")

RECURSIVE Join(_, _)
\* sep.join(words), as pieces
Join(words, sep) ==
    IF words = <<>> THEN <<>>
    ELSE IF Len(words) = 1 THEN <<words[1]>>
    ELSE <<words[1], sep>> \o Join(Tail(words), sep)

\* the characters of a command-line word, as pieces
Pieces(word) ==
    CASE word = "" -> <<>>
      [] word = " " -> <<" ">>
      [] word = "kate -w" -> <<"kate", " ", "-w">>
      [] word = "/opt/ed -w" -> <<"/opt/ed", " ", "-w">>
      [] OTHER -> <<word>>

(***************************************************************************)
(* Paths.  The paths of the model, and os.path on them.                    *)
(***************************************************************************)
\* target paths a user can name, and the directories above them
Targets == {"/d/a", "c"}
Cwd == "/cwd"
Nodes == {"/d", "/d/a", "c", Cwd}

\* the paths of the model that start with "/"
AbsPaths ==
    {"/d", "/d/a", "/d/c", Cwd, "/opt/ed"}
        \cup {"/usr/bin/" \o n :
                n \in {"subl", "kate", "gedit", "leafpad", "kwrite",
                       "kdesudo", "gksudo", "sudo", "ed"}}

StartsWithSlash(p) == p \in AbsPaths

\* os.path.join(d, p)
PathJoin(d, p) ==
    IF StartsWithSlash(p) THEN p
    ELSE IF d = "/usr/bin/" THEN d \o p
    ELSE d \o "/" \o p

\* os.path.split(p)[0]
SplitHead(p) ==
    CASE p = "/d/a" -> "/d"
      [] p = "/d/c" -> "/d"
      [] p = "/d" -> "/"
      [] p = Cwd -> "/"
      [] OTHER -> ""

Absent == [kind |-> "none", owner |-> 0, writable |-> FALSE]

Attr(p) == IF p \in DOMAIN tfs THEN tfs[p] ELSE Absent

\* what os.stat raises on a target ("none": it returns)
StatFault(f) == IF f \in DOMAIN statfault THEN statfault[f] ELSE "none"

\* os.path.exists / isfile on a target path
PathExists(p) == Attr(p).kind # "none"
PathIsFile(p) == Attr(p).kind = "file"

Kind(p) == IF p \in DOMAIN exefs THEN exefs[p] ELSE "none"

\* os.path.isfile / islink on the path of an executable.  "link" is a
\* symbolic link that does not lead to a regular file: islink, not isfile.
IsFile(p) == Kind(p) = "file"
IsLink(p) == Kind(p) = "link"

(***************************************************************************)
(* The pure functions of cedit.py.                                         *)
(***************************************************************************)
RootUid == 0

lst_editors == <<"subl", "kate", "gedit", "leafpad", "kwrite">>
lst_elevs == <<"kdesudo", "gksudo", "sudo">>

\* the test `os.path.isfile(p) or os.path.islink(p)`
FileOrLink(p) == IsFile(p) \/ IsLink(p)

\* The result of a function that returns a list or ends the process:
\* res is "return", "sys_exit" (sys.exit(1)) or "exception" (uncaught).
Returned(args) == [res |-> "return", args |-> args]
SysExit == [res |-> "sys_exit", args |-> <<>>]
Uncaught == [res |-> "exception", args |-> <<>>]

\* get_editor_default / get_elevcmd_default: the first of lst under /usr/bin/
FirstCommon(lst) ==
    LET found == SelectSeq(lst, LAMBDA n : FileOrLink(PathJoin("/usr/bin/", n)))
    IN  IF found = <<>> THEN SysExit
        ELSE Returned(<<PathJoin("/usr/bin/", found[1])>>)

get_editor_default == FirstCommon(lst_editors)

get_elevcmd_default == FirstCommon(lst_elevs)

\* Resolve without its sys.exit(1): the name under /usr/bin is taken unseen
ResolveUnchecked(userargs) ==
    IF userargs = <<>> THEN Uncaught
    ELSE IF FileOrLink(userargs[1]) THEN Returned(userargs)
    ELSE Returned([userargs EXCEPT ![1] = PathJoin("/usr/bin", userargs[1])])

\* get_editor / get_elevcmd after the split: userargs as they are, or with
\* userargs[0] under /usr/bin, or sys.exit(1); userargs[0] of an empty list
\* raises IndexError
Resolve(userargs) ==
    IF userargs = <<>> THEN Uncaught
    ELSE IF FileOrLink(userargs[1]) THEN Returned(userargs)
    ELSE LET spath == PathJoin("/usr/bin", userargs[1])
         IN  IF FileOrLink(spath)
             THEN Returned([userargs EXCEPT ![1] = spath])
             ELSE SysExit

get_editor ==
    IF settings.editor = <<>> THEN get_editor_default
    ELSE Resolve(SplitWs(settings.editor))

get_elevcmd ==
    IF settings.elevcmd = <<>> THEN get_elevcmd_default
    ELSE Resolve(SplitOn(settings.elevcmd, " "))

\* can_write: os.access(filename, os.W_OK)
can_write(filename) == Attr(filename).writable

\* what os.stat can raise in needs_root besides a missing path
Faults == {"none", "OSError", "Exception"}

\* needs_root: the path that is stat()ed
StatPath(sfilename) ==
    IF PathExists(sfilename) THEN sfilename
    ELSE IF SplitHead(sfilename) = "" THEN Cwd
    ELSE SplitHead(sfilename)

\* needs_root with the owner test of line 911 answering the other way
NeedsRootOwnerInverted(sfilename, fault) ==
    IF uid = RootUid THEN FALSE
    ELSE IF fault # "none" \/ ~PathExists(StatPath(sfilename)) THEN TRUE
    ELSE IF Attr(StatPath(sfilename)).owner = RootUid THEN FALSE
    ELSE ~can_write(StatPath(sfilename))

\* needs_root with `return False` in its exception handlers
NeedsRootFailOpen(sfilename, fault) ==
    IF uid = RootUid THEN FALSE
    ELSE IF fault # "none" \/ ~PathExists(StatPath(sfilename)) THEN FALSE
    ELSE IF Attr(StatPath(sfilename)).owner = RootUid THEN TRUE
    ELSE ~can_write(StatPath(sfilename))

\* needs_root(sfilename), os.stat raising `fault`
needs_root(sfilename, fault) ==
    IF uid = RootUid THEN FALSE
    ELSE IF fault # "none" \/ ~PathExists(StatPath(sfilename)) THEN TRUE
    ELSE IF Attr(StatPath(sfilename)).owner = RootUid THEN TRUE
    ELSE ~can_write(StatPath(sfilename))

\* shell_file, lines 1072-1075: the editor, under /usr/bin when it is a
\* relative name of no file
editor_path(editor) ==
    IF ~StartsWithSlash(editor) /\ ~IsFile(editor)
    THEN "/usr/bin/" \o editor
    ELSE editor

\* finalcmd + elevcmdargs in place of line 1091
ElevateAppended(elevargs, cmd) == cmd \o elevargs

\* shell_file, line 1091: elevcmdargs + finalcmd
elevated(elevargs, cmd) == elevargs \o cmd

\* lines 1097-1102 with the two extend calls in the other order
ArgsThenFiles(cmd, files, eargs) == cmd \o eargs \o files

\* shell_file, lines 1097-1102: finalcmd.extend(filenames), then
\* finalcmd.extend(EDITORARGS)
extended(cmd, files, eargs) == cmd \o files \o eargs

\* check_file without its prompt: TRUE when the user is not asked
FilePresent(filename) == PathIsFile(filename) \/ PathExists(filename)

\* find_filename
find_filename(s, paths) ==
    IF PathExists(s) THEN s
    ELSE LET hits == SelectSeq(paths, LAMBDA p : PathExists(PathJoin(p, s)))
         IN  IF hits = <<>> THEN s ELSE PathJoin(hits[1], s)

\* sorted() on directory names: the names of the model in string order
DirOrder == <<Cwd, "/d">>

RECURSIVE SortedFrom(_, _)
SortedFrom(s, k) ==
    IF k > Len(DirOrder) THEN <<>>
    ELSE SelectSeq(s, LAMBDA x : x = DirOrder[k]) \o SortedFrom(s, k + 1)

\* get_cedit_paths with the working directory as the list of an empty setting
GetCeditPathsDefaultCwd ==
    IF settings.paths = <<>> THEN <<Cwd>>
    ELSE SortedFrom(SplitOn(settings.paths, ":"), 1)

\* get_cedit_paths
get_cedit_paths ==
    IF settings.paths = <<>> THEN <<>>
    ELSE SortedFrom(SplitOn(settings.paths, ":"), 1)

\* load_aliases: the decoded json object, alias name -> argument list
load_aliases == settings.aliases

\* aliases.get(name, '')
AliasArgs(name) ==
    IF name \in DOMAIN load_aliases THEN load_aliases[name] ELSE <<>>

\* run_alias_args with the extra arguments before the alias's own
ExtraArgsFirst(aliasargs, extra_args) == extra_args \o aliasargs

\* run_alias_args, lines 952-954: the arguments main is entered again with
\* (without the script name put in front)
run_alias_args(aliasargs, extra_args) == aliasargs \o extra_args

\* good_return, as the Python value it returns
good_return(returnvalue) == IF returnvalue = 0 THEN "True" ELSE "False"

\* bool(x) of an element of `returns`
Truthy(x) == x # "False"

\* first index of x in s (list.index)
IndexOf(s, x) == CHOOSE i \in 1..Len(s) : s[i] = x /\ \A j \in 1..(i - 1) : s[j] # x

\* init_editor_args on args[1:] (the alias-adding branch apart):
\* the values of CEDITARGS and EDITORARGS
init_editor_args(args) ==
    IF "--" \in Range(args)
    THEN LET i == IndexOf(args, "--")
         IN  [cedit |-> IF i = 1 THEN <<"!ARGPASS">> ELSE SubSeq(args, 1, i - 1),
              editor |-> SubSeq(args, i + 1, Len(args))]
    ELSE [cedit |-> args, editor |-> <<>>]

\* init_editor_args, line 844: the command line adds an alias
IsAliasAdd(args) == "-a" \in Range(args) \/ "--alias" \in Range(args)

\* docopt.docopt(usage_str, argv): the usage `<filename>... [options]` and
\* the usages that start with -d, -e, -c, -i, -l, -r ("" is None)
OptionWords == {"-s", "--shellall", "-q", "--quiet"}

SettingWords == {"-d", "-e", "-c", "-i", "-l", "-r"}

docopt(argv) ==
    LET w == IF argv = <<>> THEN "" ELSE argv[1]
        open == w \notin SettingWords
        arg == IF Len(argv) >= 2 THEN argv[2] ELSE ""
    IN  [filename |-> IF open THEN SelectSeq(argv, LAMBDA a : a \notin OptionWords)
                      ELSE <<>>,
         shellall |-> open /\ Range(argv) \cap {"-s", "--shellall"} # {},
         quiet |-> open /\ Range(argv) \cap {"-q", "--quiet"} # {},
         dirs |-> IF w = "-d" THEN arg ELSE "",
         overwrite |-> w = "-d" /\ "-o" \in Range(argv),
         editor |-> IF w = "-e" THEN arg ELSE "",
         elevcmd |-> IF w = "-c" THEN arg ELSE "",
         install |-> w = "-i",
         user |-> w = "-i" /\ arg = "-u",
         path |-> IF w = "-i" /\ arg = "-p" /\ Len(argv) >= 3 THEN argv[3] ELSE "",
         list |-> w = "-l",
         remove |-> w = "-r"]

\* main, lines 1125-1152: the branch of the if/elif chain that is taken, by
\* the truth of the docopt values; "open" is the fall through to line 1155.
\* An alias is added by init_editor_args, before docopt is called.
Command ==
    IF IsAliasAdd(CEDITARGS) THEN "alias"
    ELSE IF argd.install THEN "install"
    ELSE IF argd.dirs # "" THEN "dirs"
    ELSE IF argd.editor # "" THEN "editor"
    ELSE IF argd.elevcmd # "" THEN "elevcmd"
    ELSE IF argd.list THEN "list"
    ELSE IF argd.remove THEN "remove"
    ELSE "open"

\* main, lines 1157-1161: the file names without the first '!ARGPASS'
DropArgPass(names) ==
    IF "!ARGPASS" \in Range(names)
    THEN LET i == IndexOf(names, "!ARGPASS")
         IN  SubSeq(names, 1, i - 1) \o SubSeq(names, i + 1, Len(names))
    ELSE names

(***************************************************************************)
(* How a call of shell_file, and the process, end.                         *)
(***************************************************************************)
\* main() loops over the files one process each (lines 1175-1182)
InShellAll == argd.shellall /\ filenames # <<>>

\* shell_file returns r to main: into `returns` under --shellall, else as
\* main's own return value, which is the exit status
ShellFileReturns(r) ==
    IF InShellAll
    THEN /\ pc' = "shellall"
         /\ returns' = Append(returns, good_return(r))
         /\ idx' = idx + 1
         /\ UNCHANGED <<exitcode, how>>
    ELSE /\ pc' = "done"
         /\ exitcode' = r
         /\ how' = "return"
         /\ UNCHANGED <<returns, idx>>

\* the process ends here: sys.exit(code), or an exception nobody catches
\* (the interpreter prints the traceback and exits with status 1)
ProcessEnds(code, why) ==
    /\ pc' = "done"
    /\ exitcode' = code
    /\ how' = why
    /\ UNCHANGED <<returns, idx>>

\* get_editor/get_elevcmd did not return: sys.exit(1) or an exception
Aborts(ge) == ProcessEnds(1, ge.res)

(***************************************************************************)
(* run_exec and the end of shell_file.                                     *)
(***************************************************************************)
\* How a launch can go.  primary is subprocess.call(cmdlist): "ok" (a child
\* ran) or "raise".  fallback is os.system(' '.join(cmdlist)), tried after
\* primary raised: "ok" (the shell ran the command), "fail" (the shell could
\* not: a non-zero status is returned) or "raise".
LaunchOutcomes ==
    {[primary |-> "ok", fallback |-> "unused"]}
        \cup {[primary |-> "raise", fallback |-> f] : f \in {"ok", "fail", "raise"}}

\* the launch of cmdlist: a regular file goes as launchenv says, a path that
\* is no regular file cannot be executed by subprocess or by the shell
LaunchOutcome(cmdlist) ==
    IF IsFile(cmdlist[1]) THEN launchenv
    ELSE [primary |-> "raise", fallback |-> "fail"]

\* run_exec raises (line 974) only when both launches raised
run_exec_raises(out) == out.primary = "raise" /\ out.fallback = "raise"

\* shell_file, lines 1104-1112: 1 when run_exec raised, else 0
shell_file_result(out) == IF run_exec_raises(out) THEN 1 ELSE 0

\* a child process ran the command
ChildRan(l) == l.primary = "ok" \/ l.fallback = "ok"

(***************************************************************************)
(* The run.                                                                *)
(***************************************************************************)
\* the command line `cedit <files> [-s] [-q] [-- <eargs>]`, without argv[0]
ArgvOf(files, s, q, eargs) ==
    files \o (IF s THEN <<"-s">> ELSE <<>>) \o (IF q THEN <<"-q">> ELSE <<>>)
          \o (IF eargs = <<>> THEN <<>> ELSE <<"--">> \o eargs)

\* the state at `mainargd = init_args(sys.argv)` (line 1200), the environment
\* and the command line drawn from the given sets
\* the state of a process at `mainargd = init_args(sys.argv)` (line 1200)
\* with the command line argv, as the next state
ProcessStarts(argv) ==
    /\ CEDITARGS' = init_editor_args(argv).cedit
    /\ EDITORARGS' = init_editor_args(argv).editor
    /\ argd' = docopt(init_editor_args(argv).cedit)
    /\ CEDITPATHS' = <<>>
    /\ depth' = 0
    /\ pc' = "main"
    /\ filenames' = <<>>
    /\ idx' = 0
    /\ returns' = <<>>
    /\ batch' = <<>>
    /\ usereditor' = <<>>
    /\ elevcmdargs' = <<>>
    /\ finalcmd' = <<>>
    /\ scan' = 0
    /\ nrlog' = <<>>
    /\ launched' = <<>>
    /\ ncalls' = 0
    /\ exitcode' = -1
    /\ how' = "running"
    /\ asked' = <<>>
    /\ printed' = <<>>

InitAll(uids, exes, targets, faults, launches, stored, argvs, saveoks, fsperms, osenvs, bindirss, linkss) ==
    /\ saveok \in saveoks
    /\ fsperm \in fsperms
    /\ osenv \in osenvs
    /\ bindirs \in bindirss
    /\ links \in linkss
    /\ runs = 1
    /\ saved = <<>>
    /\ asked = <<>>
    /\ printed = <<>>
    /\ uid \in uids
    /\ exefs \in exes
    /\ tfs \in targets
    /\ statfault \in faults
    /\ launchenv \in launches
    /\ settings \in stored
    /\ \E argv \in argvs :
          /\ CEDITARGS = init_editor_args(argv).cedit
          /\ EDITORARGS = init_editor_args(argv).editor
          /\ argd = docopt(init_editor_args(argv).cedit)
    /\ CEDITPATHS = <<>>
    /\ depth = 0
    /\ pc = "main"
    /\ filenames = <<>>
    /\ idx = 0
    /\ returns = <<>>
    /\ batch = <<>>
    /\ usereditor = <<>>
    /\ elevcmdargs = <<>>
    /\ finalcmd = <<>>
    /\ scan = 0
    /\ nrlog = <<>>
    /\ launched = <<>>
    /\ ncalls = 0
    /\ exitcode = -1
    /\ how = "running"

\* the directories a link of the program can go to
UserLocalBin == "/home/u/.local/bin"
BinDirs == {"/usr/local/bin", "/usr/bin", "/home/u/bin", UserLocalBin, "/p"}

\* a usual login: USER is set, PATH holds the system directories
UsualEnv == [user |-> "u", path |-> <<"/usr/local/bin", "/usr/bin">>]

\* an open command does not look at the settings file's writability, the
\* environment or the installed links
InitFrom(uids, exes, targets, faults, launches, stored, argvs) ==
    InitAll(uids, exes, targets, faults, launches, stored, argvs,
            {TRUE}, {TRUE}, {UsualEnv}, {{"/usr/local/bin", "/usr/bin"}}, {{}})

\* main (lines 1116-1189) on an open command, up to its first prompt or to
\* its call of shell_file; an alias re-enters main through run_alias_args
Main ==
    /\ pc = "main"
    /\ Command = "open"
    /\ CEDITPATHS' = get_cedit_paths
    /\ LET names == DropArgPass(argd.filename)
           alias_args == IF names = <<>> THEN <<>> ELSE AliasArgs(names[1])
           args == run_alias_args(alias_args, Tail(names))
           found == [i \in 1..Len(names) |-> find_filename(names[i], get_cedit_paths)]
       IN  IF alias_args # <<>>
           THEN IF depth = MaxDepth
                THEN /\ ProcessEnds(1, "exception")
                     /\ UNCHANGED <<CEDITARGS, EDITORARGS, argd, depth, filenames, batch>>
                ELSE /\ CEDITARGS' = init_editor_args(args).cedit
                     /\ EDITORARGS' = init_editor_args(args).editor
                     /\ argd' = docopt(init_editor_args(args).cedit)
                     /\ depth' = depth + 1
                     /\ UNCHANGED <<pc, filenames, batch, idx, returns, exitcode, how>>
           ELSE /\ filenames' = found
                /\ UNCHANGED <<CEDITARGS, EDITORARGS, argd, depth, exitcode, how>>
                /\ IF names = <<>>
                   THEN pc' = "shell_file" /\ batch' = <<>> /\ UNCHANGED <<idx, returns>>
                   ELSE IF argd.shellall
                   THEN pc' = "shellall" /\ idx' = 1 /\ returns' = <<>> /\ UNCHANGED batch
                   ELSE IF argd.quiet
                   THEN pc' = "shell_file" /\ batch' = found /\ UNCHANGED <<idx, returns>>
                   ELSE pc' = "check_files" /\ idx' = 1 /\ UNCHANGED <<batch, returns>>
    /\ UNCHANGED <<envvars, cfgvars, usereditor, elevcmdargs, finalcmd, scan, nrlog, launched,
                   ncalls>>

\* check_files (lines 351-356), one check_file per step; the user is asked
\* about a missing file and answers yes or no.  After a no, main falls off
\* its end (line 1185) and returns None: sys.exit(None) is exit status 0.
CheckFiles ==
    /\ pc = "check_files"
    /\ \E yes \in IF FilePresent(filenames[idx]) THEN {TRUE} ELSE BOOLEAN :
          IF ~yes
          THEN ProcessEnds(0, "return_none") /\ UNCHANGED batch
          ELSE IF idx = Len(filenames)
          THEN /\ pc' = "shell_file" /\ batch' = filenames
               /\ UNCHANGED <<idx, returns, exitcode, how>>
          ELSE /\ idx' = idx + 1
               /\ UNCHANGED <<pc, batch, returns, exitcode, how>>
    /\ UNCHANGED <<envvars, cfgvars, CEDITARGS, EDITORARGS, CEDITPATHS, argd, depth, filenames,
                   usereditor, elevcmdargs, finalcmd, scan, nrlog, launched, ncalls>>

\* main under --shellall (lines 1175-1182): one round of the loop up to its
\* call of shell_file, or the return after the loop
MainShellAll ==
    /\ pc = "shellall"
    /\ IF idx > Len(filenames)
       THEN /\ pc' = "done"
            /\ exitcode' = (IF \A i \in 1..Len(returns) : Truthy(returns[i]) THEN 0 ELSE 1)
            /\ how' = "return"
            /\ UNCHANGED <<idx, returns, batch>>
       ELSE \E yes \in IF argd.quiet \/ FilePresent(filenames[idx])
                       THEN {TRUE} ELSE BOOLEAN :
               IF yes
               THEN /\ pc' = "shell_file" /\ batch' = <<filenames[idx]>>
                    /\ UNCHANGED <<idx, returns, exitcode, how>>
               ELSE /\ returns' = Append(returns, "1") /\ idx' = idx + 1
                    /\ UNCHANGED <<pc, batch, exitcode, how>>
    /\ UNCHANGED <<envvars, cfgvars, CEDITARGS, EDITORARGS, CEDITPATHS, argd, depth, filenames,
                   usereditor, elevcmdargs, finalcmd, scan, nrlog, launched, ncalls>>

\* shell_file, lines 1070-1085 and, without file names, 1100-1102: the editor
ShellFileEditor ==
    /\ pc = "shell_file"
    /\ ncalls' = ncalls + 1
    /\ LET ge == get_editor
           editor == editor_path(ge.args[1])
       IN  IF ge.res # "return"
           THEN /\ Aborts(ge)
                /\ UNCHANGED <<usereditor, elevcmdargs, finalcmd, scan, nrlog>>
           ELSE IF ~IsFile(editor)
           THEN /\ ShellFileReturns(1)
                /\ UNCHANGED <<usereditor, elevcmdargs, finalcmd, scan, nrlog>>
           ELSE /\ usereditor' = [ge.args EXCEPT ![1] = editor]
                /\ elevcmdargs' = <<>>
                /\ nrlog' = <<>>
                /\ IF batch = <<>>
                   THEN /\ finalcmd' = extended([ge.args EXCEPT ![1] = editor], <<>>,
                                                EDITORARGS)
                        /\ pc' = "run_exec" /\ scan' = 0
                   ELSE /\ finalcmd' = [ge.args EXCEPT ![1] = editor]
                        /\ pc' = "needs_root" /\ scan' = 1
                /\ UNCHANGED <<returns, idx, exitcode, how>>
    /\ UNCHANGED <<envvars, cfgvars, CEDITARGS, EDITORARGS, CEDITPATHS, argd, depth, filenames,
                   batch, launched>>

\* shell_file, lines 1087-1088 and 1098-1102: one round of the loop over the
\* file names; after the last one the file names and EDITORARGS are appended
ShellFileScan ==
    /\ pc = "needs_root"
    /\ nrlog' = Append(nrlog, [path |-> batch[scan],
                               result |-> needs_root(batch[scan], StatFault(batch[scan]))])
    /\ IF needs_root(batch[scan], StatFault(batch[scan]))
       THEN pc' = "get_elevcmd" /\ UNCHANGED <<scan, finalcmd>>
       ELSE IF scan = Len(batch)
       THEN /\ pc' = "run_exec" /\ finalcmd' = extended(finalcmd, batch, EDITORARGS)
            /\ UNCHANGED scan
       ELSE scan' = scan + 1 /\ UNCHANGED <<pc, finalcmd>>
    /\ UNCHANGED <<envvars, cfgvars, CEDITARGS, EDITORARGS, CEDITPATHS, argd, depth, filenames,
                   idx, returns, batch, usereditor, elevcmdargs, launched, ncalls,
                   exitcode, how>>

\* shell_file, lines 1089-1102: a file needs root
ShellFileElevate ==
    /\ pc = "get_elevcmd"
    /\ LET ge == get_elevcmd
       IN  IF ge.res # "return"
           THEN Aborts(ge) /\ UNCHANGED <<elevcmdargs, finalcmd>>
           ELSE /\ elevcmdargs' = ge.args
                /\ finalcmd' = extended(elevated(ge.args, finalcmd), batch, EDITORARGS)
                /\ pc' = "run_exec"
                /\ UNCHANGED <<returns, idx, exitcode, how>>
    /\ UNCHANGED <<envvars, cfgvars, CEDITARGS, EDITORARGS, CEDITPATHS, argd, depth, filenames,
                   batch, usereditor, scan, nrlog, launched, ncalls>>

\* shell_file, lines 1103-1112, with run_exec (lines 961-976); the call
\* returns and its locals are gone
ShellFileRun ==
    /\ pc = "run_exec"
    /\ launched' = Append(launched,
            [cmd |-> finalcmd, elev |-> elevcmdargs, editor |-> usereditor,
             files |-> batch, primary |-> LaunchOutcome(finalcmd).primary,
             fallback |-> LaunchOutcome(finalcmd).fallback])
    /\ ShellFileReturns(shell_file_result(LaunchOutcome(finalcmd)))
    /\ batch' = <<>>
    /\ usereditor' = <<>>
    /\ elevcmdargs' = <<>>
    /\ finalcmd' = <<>>
    /\ scan' = 0
    /\ nrlog' = <<>>
    /\ UNCHANGED <<envvars, cfgvars, CEDITARGS, EDITORARGS, CEDITPATHS, argd, depth, filenames,
                   ncalls>>

(***************************************************************************)
(* The settings commands: -e, -c, -d, -l.                                  *)
(***************************************************************************)
\* the locals of an open command and the parsed command line
openvars == <<CEDITARGS, EDITORARGS, argd, depth, filenames, idx, returns, batch,
              usereditor, elevcmdargs, finalcmd, scan, nrlog, launched, ncalls>>

\* what the program prints: a tagged line
Line(tag, words) == [opt |-> tag, val |-> words]

\* settings.setsave(opt, val): the saved file has the value when the save
\* succeeds and is as before when it fails
setsave(opt, val) ==
    /\ settings' = IF saveok
                   THEN [settings EXCEPT ![opt] = val, !.options = @ \cup {opt}]
                   ELSE settings
    /\ saved' = Append(saved, [run |-> runs, opt |-> opt, val |-> val, ok |-> saveok])

\* a settings command returns ret to main, which returns it to sys.exit
Returns(ret, line) ==
    /\ pc' = "done"
    /\ exitcode' = ret
    /\ how' = "return"
    /\ printed' = Append(printed, line)

\* set_setting_safe(opt, val) up to its call of setsave: what it returns
\* without saving, or the value it saves; "".split()[0] raises IndexError
set_setting_safe(opt, val) ==
    LET args == SplitWs(Pieces(val))
        spath == PathJoin("/usr/bin", args[1])
    IN  IF settings[opt] = Pieces(val)
        THEN [res |-> "return", save |-> FALSE, val |-> <<>>, tag |-> "already set"]
        ELSE IF args = <<>>
        THEN [res |-> "exception", save |-> FALSE, val |-> <<>>, tag |-> "IndexError"]
        ELSE IF IsFile(args[1])
        THEN [res |-> "return", save |-> TRUE, val |-> Pieces(val), tag |-> "now set"]
        ELSE IF IsFile(spath)
        THEN [res |-> "return", save |-> TRUE,
              val |-> Join([args EXCEPT ![1] = spath], " "), tag |-> "now set"]
        ELSE [res |-> "return", save |-> FALSE, val |-> <<>>, tag |-> "doesn't exist"]

\* main, lines 1143-1148, with set_setting_safe (lines 1039-1062)
SetSettingSafe ==
    /\ pc = "main"
    /\ Command \in {"editor", "elevcmd"}
    /\ CEDITPATHS' = get_cedit_paths
    /\ LET r == set_setting_safe(Command, argd[Command])
       IN  IF r.res = "exception"
           THEN /\ pc' = "done" /\ exitcode' = 1 /\ how' = "exception"
                /\ printed' = Append(printed, Line(Command, <<r.tag>>))
                /\ UNCHANGED <<settings, saved>>
           ELSE IF r.save
           THEN /\ setsave(Command, r.val)
                /\ IF saveok THEN Returns(0, Line(Command, <<"now set">>))
                             ELSE Returns(1, Line(Command, <<"unable to set">>))
           ELSE /\ Returns(1, Line(Command, <<r.tag>>))
                /\ UNCHANGED <<settings, saved>>
    /\ UNCHANGED <<worldvars, links, runs, asked, openvars>>

\* the directories named by the value of -d:
\* [find_dir(p.strip()) for p in s.split(',')]
DirWords(s) ==
    CASE s = "/d,/cwd" -> <<"/d", Cwd>>
      [] s = "/d, /d" -> <<"/d", "/d">>
      [] OTHER -> <<s>>

\* os.path.isdir on a path of the model
IsDir(p) == Attr(p).kind = "dir"

RECURSIVE AddPaths(_, _, _)
\* set_cedit_paths, lines 1004-1012: the loop over the directories
AddPaths(words, paths, newpaths) ==
    IF words = <<>> THEN [paths |-> paths, newpaths |-> newpaths]
    ELSE IF ~IsDir(Head(words)) \/ Head(words) \in Range(paths)
    THEN AddPaths(Tail(words), paths, newpaths)
    ELSE AddPaths(Tail(words), Append(paths, Head(words)),
                  Append(newpaths, Head(words)))

\* sorted(list(set(paths)))
SortedSet(paths) == SelectSeq(DirOrder, LAMBDA d : d \in Range(paths))

\* clear_cedit_paths (lines 373-391) with CEDITPATHS as main set it
ClearCeditPaths ==
    IF get_cedit_paths # <<>>
    THEN /\ CEDITPATHS' = <<>>
         /\ setsave("paths", <<>>)
         /\ IF saveok THEN Returns(0, Line("paths", <<"cleared">>))
                      ELSE Returns(1, Line("paths", <<"unable to save">>))
    ELSE /\ CEDITPATHS' = get_cedit_paths
         /\ Returns(1, Line("paths", <<"none set yet">>))
         /\ UNCHANGED <<settings, saved>>

\* main, lines 1140-1141, with set_cedit_paths (lines 979-1036)
SetCeditPaths ==
    /\ pc = "main"
    /\ Command = "dirs"
    /\ IF argd.dirs \in {"-", "none"}
       THEN ClearCeditPaths
       ELSE LET old == IF argd.overwrite THEN <<>> ELSE get_cedit_paths
                r == AddPaths(DirWords(argd.dirs), old, <<>>)
            IN  IF r.paths = <<>>
                THEN /\ Returns(1, Line("paths", <<"no paths">>))
                     /\ CEDITPATHS' = get_cedit_paths
                     /\ UNCHANGED <<settings, saved>>
                ELSE IF r.newpaths = <<>>
                THEN /\ Returns(1, Line("paths", <<"no changes">>))
                     /\ CEDITPATHS' = get_cedit_paths
                     /\ UNCHANGED <<settings, saved>>
                ELSE /\ CEDITPATHS' = SortedSet(r.paths)
                     /\ setsave("paths", Join(SortedSet(r.paths), ":"))
                     /\ IF saveok THEN Returns(0, Line("paths", <<"saved">>))
                                  ELSE Returns(1, Line("paths", <<"unable to save">>))
    /\ UNCHANGED <<worldvars, links, runs, asked, openvars>>

\* sorted(settings.list_options())
OptionOrder == <<"aliases", "editor", "elevcmd", "paths">>

\* cmd_list, lines 442-454: the line printed for an option
ListLine(optname) ==
    IF settings[optname] = <<>> THEN Line(optname, <<"(not set yet!)">>)
    ELSE IF optname = "paths"
    THEN Line(optname, SortedFrom(SplitOn(settings.paths, ":"), 1))
    ELSE IF optname = "aliases" THEN Line(optname, <<"{json}">>)
    ELSE Line(optname, settings[optname])

\* cmd_list: the lines it prints, in order
cmd_list ==
    LET alloptions == SelectSeq(OptionOrder, LAMBDA o : o \in settings.options)
    IN  [i \in 1..Len(alloptions) |-> ListLine(alloptions[i])]

\* main, lines 1149-1150, with cmd_list (lines 428-455)
CmdList ==
    /\ pc = "main"
    /\ Command = "list"
    /\ CEDITPATHS' = get_cedit_paths
    /\ pc' = "done"
    /\ how' = "return"
    /\ IF cmd_list = <<>>
       THEN exitcode' = 1 /\ printed' = Append(printed, Line("msg", <<"no settings yet">>))
       ELSE exitcode' = 0 /\ printed' = printed \o cmd_list
    /\ UNCHANGED <<worldvars, settings, links, runs, saved, asked, openvars>>

\* the words typed at a confirmation
Answers == {"yes", "Y", "no", ""}

\* init_editor_args, lines 851-860: the arguments without the first -a (or
\* --alias) and the first -D (or --debug)
AliasAddArgs(args) ==
    LET flag == IF "-a" \in Range(args) THEN "-a" ELSE "--alias"
        i == IndexOf(args, flag)
        rest == SubSeq(args, 1, i - 1) \o SubSeq(args, i + 1, Len(args))
        dflag == IF "-D" \in Range(rest) THEN "-D" ELSE "--debug"
    IN  IF dflag \in Range(rest)
        THEN SubSeq(rest, 1, IndexOf(rest, dflag) - 1)
                \o SubSeq(rest, IndexOf(rest, dflag) + 1, Len(rest))
        ELSE rest

\* confirm (lines 577-585): answer.startswith('y') after lower().strip()
confirm(answer) == answer \in {"yes", "Y"}

\* init_editor_args, lines 844-869, with cmd_alias_add (lines 394-425): the
\* alias is saved and the process ends by sys.exit
CmdAliasAdd ==
    /\ pc = "main"
    /\ Command = "alias"
    /\ LET args == AliasAddArgs(CEDITARGS)
           name == args[1]
           aliases == load_aliases
       IN  IF Len(args) < 2
           THEN /\ ProcessEnds(1, "sys_exit")
                /\ printed' = Append(printed, Line("usage", <<>>))
                /\ UNCHANGED <<settings, saved, asked>>
           ELSE \E answer \in IF name \in DOMAIN aliases THEN Answers ELSE {"yes"} :
                   /\ asked' = IF name \in DOMAIN aliases
                               THEN Append(asked, [what |-> "alias", answer |-> answer])
                               ELSE asked
                   /\ IF ~confirm(answer)
                      THEN /\ ProcessEnds(1, "sys_exit")
                           /\ printed' = Append(printed, Line("aliases", <<"cancelled">>))
                           /\ UNCHANGED <<settings, saved>>
                      ELSE /\ setsave("aliases", (name :> Tail(args)) @@ aliases)
                           /\ ProcessEnds(IF saveok THEN 0 ELSE 1, "sys_exit")
                           /\ printed' = Append(printed,
                                   Line("aliases", <<IF saveok THEN "saved"
                                                     ELSE "unable to save">>))
    /\ UNCHANGED <<worldvars, links, runs, CEDITPATHS, CEDITARGS, EDITORARGS, argd, depth,
                   filenames, batch, usereditor, elevcmdargs, finalcmd, scan, nrlog,
                   launched, ncalls>>

(***************************************************************************)
(* The installer: -i and -r.                                               *)
(***************************************************************************)
NAME == "cedit"

\* the result of a function that returns a path or None
Found(path) == [res |-> "return", loc |-> path]
None == [res |-> "return", loc |-> ""]

\* re.search of r'/home/{username}.+/bin' in a PATH entry: something stands
\* between the home directory and /bin
MatchesUserBin(pathentry) == pathentry = UserLocalBin

\* re.search of '/home/.+/bin' in a PATH entry
MatchesHomeBin(pathentry) == pathentry \in {"/home/u/bin", UserLocalBin}

\* get_userbin (lines 742-786); "" is None
get_userbin ==
    LET inpath == SelectSeq(osenv.path,
                            LAMBDA e : MatchesUserBin(e) /\ e \in bindirs)
        possible == SelectSeq(<<"/home/u/bin", "/home/u/local/bin", UserLocalBin>>,
                              LAMBDA d : d \in bindirs)
        anyhome == SelectSeq(osenv.path, MatchesHomeBin)
    IN  IF osenv.user # ""
        THEN IF inpath # <<>> THEN inpath[1]
             ELSE IF possible # <<>> THEN possible[1]
             ELSE ""
        ELSE IF anyhome # <<>> THEN anyhome[1]
        ELSE ""

\* check_path(sdir): the directory is an entry of PATH
check_path(sdir) == sdir \in Range(osenv.path)

\* cmd_location(shortname): the output of `which`, "" is None.  A bare name
\* is looked up in the entries of PATH, a path is taken as it is.
cmd_location(shortname) ==
    IF StartsWithSlash(shortname) \/ shortname \in {PathJoin(d, NAME) : d \in BinDirs}
    THEN IF shortname \in links THEN shortname ELSE ""
    ELSE LET hits == SelectSeq(osenv.path, LAMBDA d : PathJoin(d, shortname) \in links)
         IN  IF hits = <<>> THEN "" ELSE PathJoin(hits[1], shortname)

\* main, lines 1130-1138: the argument of cmd_install
Userdir ==
    IF argd.path # "" THEN argd.path
    ELSE IF argd.user THEN "auto"
    ELSE "None"

\* cmd_install, lines 481-504: the directory to install to;
\* os.path.isdir(None) raises TypeError
install_location ==
    IF Userdir = "None"
    THEN IF check_path("/usr/local/bin") /\ "/usr/local/bin" \in bindirs
         THEN Found("/usr/local/bin")
         ELSE Found("/usr/bin")
    ELSE LET location == IF Userdir = "auto" THEN get_userbin ELSE Userdir
         IN  IF location = "" THEN [res |-> "exception", loc |-> ""]
             ELSE IF location \notin bindirs THEN [res |-> "notdir", loc |-> location]
             ELSE Found(location)

\* cmd_install, lines 507-511: where cedit is found installed, "" is None
InstalledNameOnly(finalname) == cmd_location(NAME)

installedloc(finalname) ==
    IF cmd_location(NAME) # "" THEN cmd_location(NAME) ELSE cmd_location(finalname)

\* a confirmation that takes every answer for a yes
AnyAnswer(answer) == TRUE

\* answer.lower().strip().strip('\t').startswith('y')
starts_with_y(answer) == answer \in {"yes", "Y"}

\* cmd_install (lines 470-518) up to its confirmation
CmdInstall ==
    /\ pc = "main"
    /\ Command = "install"
    /\ CEDITPATHS' = get_cedit_paths
    /\ LET l == install_location
           finalname == PathJoin(l.loc, NAME)
       IN  IF l.res = "exception"
           THEN /\ pc' = "done" /\ exitcode' = 1 /\ how' = "exception"
                /\ printed' = Append(printed, Line("install", <<"TypeError">>))
           ELSE IF l.res = "notdir"
           THEN Returns(1, Line("install", <<"not a directory">>))
           ELSE IF installedloc(finalname) # ""
           THEN Returns(1, Line("install", <<"already installed">>))
           ELSE /\ pc' = "install_confirm"
                /\ UNCHANGED <<exitcode, how, printed>>
    /\ UNCHANGED <<worldvars, settings, links, runs, saved, asked, openvars>>

\* cmd_install, lines 520-525: the confirmation
CmdInstallConfirm ==
    /\ pc = "install_confirm"
    /\ \E doinstall \in Answers :
          /\ asked' = Append(asked, [what |-> "install", answer |-> doinstall])
          /\ IF starts_with_y(doinstall)
             THEN pc' = "install_symlink" /\ UNCHANGED <<exitcode, how, printed>>
             ELSE Returns(1, Line("install", <<"canceled">>))
    /\ UNCHANGED <<worldvars, settings, links, runs, saved, CEDITPATHS, openvars>>

\* cmd_install, lines 527-544: os.symlink(scriptfile, finalname) raises
\* OSError without the permission, without the directory, or with a file of
\* that name
CmdInstallSymlink ==
    /\ pc = "install_symlink"
    /\ LET finalname == PathJoin(install_location.loc, NAME)
       IN  IF fsperm /\ install_location.loc \in bindirs /\ finalname \notin links
           THEN /\ links' = links \cup {finalname}
                /\ Returns(0, Line("install", <<"success">>))
           ELSE /\ links' = links
                /\ Returns(1, Line("install", <<"error">>))
    /\ UNCHANGED <<worldvars, settings, runs, saved, asked, CEDITPATHS, openvars>>

\* cmd_remove (lines 547-574) up to its confirmation
CmdRemove ==
    /\ pc = "main"
    /\ Command = "remove"
    /\ CEDITPATHS' = get_cedit_paths
    /\ IF cmd_location(NAME) = ""
       THEN Returns(1, Line("remove", <<"not installed">>))
       ELSE pc' = "remove_confirm" /\ UNCHANGED <<exitcode, how, printed>>
    /\ UNCHANGED <<worldvars, settings, links, runs, saved, asked, openvars>>

\* cmd_remove, lines 556-563: the confirmation
CmdRemoveConfirm ==
    /\ pc = "remove_confirm"
    /\ \E doremove \in Answers :
          /\ asked' = Append(asked, [what |-> "remove", answer |-> doremove])
          /\ IF starts_with_y(doremove)
             THEN pc' = "remove_unlink" /\ UNCHANGED <<exitcode, how, printed>>
             ELSE Returns(1, Line("remove", <<"canceled">>))
    /\ UNCHANGED <<worldvars, settings, links, runs, saved, CEDITPATHS, openvars>>

\* cmd_remove, lines 565-574: os.remove(loc)
CmdRemoveUnlink ==
    /\ pc = "remove_unlink"
    /\ IF fsperm
       THEN /\ links' = links \ {cmd_location(NAME)}
            /\ Returns(0, Line("remove", <<"removed">>))
       ELSE /\ links' = links
            /\ Returns(1, Line("remove", <<"unable to remove">>))
    /\ UNCHANGED <<worldvars, settings, runs, saved, asked, CEDITPATHS, openvars>>

(***************************************************************************)
(* Runs in a row.                                                          *)
(***************************************************************************)
\* the command lines of a later run: listing, opening ./c, clearing the
\* search directories
LaterArgvs == {<<"-l">>, <<"-q", "c">>, <<"-d", "none">>, <<"x">>}

\* The program is run again after a run that saved settings (lines
\* 1191-1203 once more): the files and the saved settings are as the earlier
\* run left them, the globals are new.
Rerun ==
    /\ pc = "done"
    /\ runs < MaxRuns
    /\ \E i \in 1..Len(saved) : saved[i].run = runs /\ saved[i].ok
    /\ \E argv \in LaterArgvs : ProcessStarts(argv)
    /\ runs' = runs + 1
    /\ UNCHANGED <<worldvars, settings, links, saved>>

Next ==
    \/ Main
    \/ CheckFiles
    \/ MainShellAll
    \/ ShellFileEditor
    \/ ShellFileScan
    \/ ShellFileElevate
    \/ ShellFileRun
    \/ SetSettingSafe
    \/ SetCeditPaths
    \/ CmdList
    \/ CmdAliasAdd
    \/ CmdInstall
    \/ CmdInstallConfirm
    \/ CmdInstallSymlink
    \/ CmdRemove
    \/ CmdRemoveConfirm
    \/ CmdRemoveUnlink
    \/ Rerun

(***************************************************************************)
(* The environments a run is started in.                                   *)
(***************************************************************************)
Uids == {RootUid, 1000}

\* executables: the regular files and the dangling links among the paths
ExeWorld(files, dangling) ==
    [p \in {"/usr/bin/subl", "/usr/bin/kate", "/usr/bin/gksudo", "/usr/bin/sudo",
            "/opt/ed"} |->
        IF p \in files THEN "file" ELSE IF p \in dangling THEN "link" ELSE "none"]

\* a usual installation: kate, /opt/ed and sudo
ExesUsual == {ExeWorld({"/usr/bin/kate", "/opt/ed", "/usr/bin/sudo"}, {})}

\* every installation of the five paths, kate and sudo possibly dangling
ExesAll ==
    {ExeWorld(f, l) :
        f \in SUBSET {"/usr/bin/subl", "/usr/bin/kate", "/usr/bin/sudo", "/opt/ed"},
        l \in SUBSET {"/usr/bin/kate", "/usr/bin/sudo", "/usr/bin/gksudo"}}

DirAttrs == [kind : {"dir"}, owner : Uids, writable : BOOLEAN]
FileAttrs == [kind : {"file"}, owner : Uids, writable : BOOLEAN]

TfsWorld(d, a, c, w) == ("/d" :> d) @@ ("/d/a" :> a) @@ ("c" :> c) @@ (Cwd :> w)

UserFile == [kind |-> "file", owner |-> 1000, writable |-> TRUE]

\* every state of /d, /d/a and the working directory; ./c is missing or the
\* user's
TfsAll ==
    {t \in {TfsWorld(d, a, c, w) :
                d \in DirAttrs \cup {Absent}, a \in FileAttrs \cup {Absent},
                c \in {Absent, UserFile}, w \in DirAttrs} :
        t["/d"] = Absent => t["/d/a"] = Absent}

\* /d is root's and closed, the working directory is the user's; /d/a and
\* ./c are missing, or the user's, or root's (closed or writable)
TfsSome ==
    {TfsWorld([kind |-> "dir", owner |-> RootUid, writable |-> FALSE], a, c,
              [kind |-> "dir", owner |-> 1000, writable |-> TRUE]) :
        a \in {Absent, [kind |-> "file", owner |-> RootUid, writable |-> FALSE],
               [kind |-> "file", owner |-> RootUid, writable |-> TRUE],
               UserFile},
        c \in {Absent, UserFile}}

\* the same with ./c missing
TfsFew == {t \in TfsSome : t["c"] = Absent /\ t["/d/a"] # Absent}

NoAliases == <<>>

\* the options of a settings file in which every option with a value, and no
\* other, was ever set
WithOptions(r) ==
    [editor |-> r.editor, elevcmd |-> r.elevcmd, paths |-> r.paths,
     aliases |-> r.aliases,
     options |-> {o \in {"editor", "elevcmd", "paths", "aliases"} : r[o] # <<>>}]

StoredAll(editors, elevcmds, pathss, aliasess) ==
    {WithOptions(r) :
        r \in [editor : editors, elevcmd : elevcmds, paths : pathss,
               aliases : aliasess]}

Stored(editors, elevcmds) == StoredAll(editors, elevcmds, {<<>>}, {NoAliases})

EditorValues == {<<>>, <<"kate">>, <<"/opt/ed", " ", "-w">>}
ElevcmdValues == {<<>>, <<"/usr/bin/sudo">>, <<"sudo", " ", "-n">>}

Argvs(eargss) ==
    {ArgvOf(f, s, q, e) :
        f \in SeqsUpTo(Targets, MaxFiles), s \in BOOLEAN, q \in BOOLEAN, e \in eargss}

NoFault == [f \in Targets |-> "none"]

\* os.stat fails for at most one of the file names
OneFault ==
    {[f \in Targets |-> IF f = g THEN x ELSE "none"] : g \in Targets, x \in Faults}
LaunchOk == [primary |-> "ok", fallback |-> "unused"]

\* /d and /d/a are root's and closed, ./c is missing
BasicTfs ==
    TfsWorld([kind |-> "dir", owner |-> RootUid, writable |-> FALSE],
             [kind |-> "file", owner |-> RootUid, writable |-> FALSE], Absent,
             [kind |-> "dir", owner |-> 1000, writable |-> TRUE])

UsualDirs == {"/usr/local/bin", "/usr/bin"}

\* one command line of every kind
BasicArgvs ==
    {<<"c", "/d/a">>, <<"-s", "c", "/d/a">>, <<"-e", "kate">>, <<"-d", "/d">>,
     <<"-l">>, <<"-i">>, <<"-r">>, <<"-a", "x", "c">>}

\* a usual installation and login and one command line of every kind: the
\* runs every specification starts from
InitBasic ==
    InitAll({1000}, ExesUsual, {BasicTfs}, {NoFault}, {LaunchOk},
            Stored({<<>>}, {<<>>}), BasicArgvs,
            {TRUE}, {TRUE}, {UsualEnv}, {UsualDirs}, {{}, {"/usr/bin/cedit"}})

\* command building and launching: every command line, stored value and
\* launch outcome, a usual installation
Init ==
    \/ InitFrom({1000}, ExesUsual, TfsSome, {NoFault}, LaunchOutcomes,
                Stored(EditorValues, ElevcmdValues), Argvs({<<>>, <<"+5">>}))
    \/ InitBasic

\* needs_root: every file system state and stat failure, as root and as a user
InitNR ==
    \/ InitFrom(Uids, ExesUsual, TfsAll, OneFault, {LaunchOk},
                Stored({<<>>}, {<<>>}),
                {ArgvOf(f, s, FALSE, <<>>) :
                   f \in SeqsUpTo(Targets, MaxFiles) \ {<<>>}, s \in BOOLEAN})
    \/ InitBasic

\* finding the commands: every installation and stored value
InitResolve ==
    \/ InitFrom({1000}, ExesAll, TfsFew, {NoFault}, {LaunchOk},
                Stored(EditorValues, ElevcmdValues),
                {ArgvOf(f, s, FALSE, <<>>) :
                   f \in SeqsUpTo(Targets, MaxFiles), s \in BOOLEAN})
    \/ InitBasic

\* the values of -e and -c and of -d
SettingValues == {"kate", "/usr/bin/kate", "kate -w", "/opt/ed -w", "nope", " ", ""}
DirValues == {"none", "-", "/d", "/d,/cwd", "/d, /d", "/nodir", "c"}

SettingArgvs ==
    {<<o, v>> : o \in {"-e", "-c"}, v \in SettingValues}
        \cup {<<"-d", d>> : d \in DirValues}
        \cup {<<"-d", d, "-o">> : d \in DirValues}
        \cup {<<"-l">>}

\* the stored search directories
PathValues == {<<>>, <<"/d">>, <<Cwd, ":", "/d">>}

\* the settings commands: every value, stored value and outcome of the save
InitSettings ==
    \/ InitAll({1000}, ExesUsual, {BasicTfs}, {NoFault}, {LaunchOk},
               StoredAll(EditorValues \cup {<<"/usr/bin/kate">>}, {<<>>, <<"/usr/bin/kate">>},
                         PathValues, {NoAliases}),
               SettingArgvs, BOOLEAN, {TRUE}, {UsualEnv}, {UsualDirs}, {{}})
    \/ InitBasic

\* os.environ: USER set or not, PATH unset or with a directory of the user
OsEnvs ==
    [user : {"u", ""},
     path : {<<>>, <<"/usr/local/bin", "/usr/bin">>, <<"/usr/bin", UserLocalBin>>,
             <<"/home/u/bin", "/usr/bin">>}]

\* no link, or one link of the program in a directory that exists
LinkWorlds(dirs) == {{}} \cup {{PathJoin(d, NAME)} : d \in dirs}

InstallArgvs == {<<"-i">>, <<"-i", "-u">>, <<"-i", "-p", "/p">>, <<"-r">>}

\* the directories that exist: /usr/bin and any of the others
DirWorlds == {d \cup {"/usr/bin"} : d \in SUBSET (BinDirs \ {"/usr/bin"})}

\* the state before the first step of a run that installs or removes
InstallStart(dirs) ==
    InitAll({1000}, ExesUsual, {BasicTfs}, {NoFault}, {LaunchOk},
            Stored({<<>>}, {<<>>}), InstallArgvs,
            {TRUE}, BOOLEAN, OsEnvs, {dirs}, LinkWorlds(dirs))

\* the installer: every environment, set of directories and installed link
InitInstall ==
    \/ \E dirs \in DirWorlds : InstallStart(dirs)
    \/ InitBasic

\* stored aliases: a file, a file with options, a file with arguments for
\* the editor, an alias of an alias, an alias of itself, two aliases of each
\* other
AliasTables ==
    {("x" :> <<"c">>),
     ("x" :> <<"-s", "c", "/d/a">>),
     ("x" :> <<"c", "--", "+5">>),
     ("x" :> <<"y">>) @@ ("y" :> <<"c">>),
     ("x" :> <<"x">>),
     ("x" :> <<"y">>) @@ ("y" :> <<"x">>)}

AliasArgvs ==
    {<<"x">>, <<"x", "/d/a">>, <<"y", "c">>, <<"-q", "x", "c">>, <<"x", "--", "+1">>,
     <<"-a", "x", "x">>, <<"-a", "y", "-s", "c">>, <<"-a", "x">>}

\* aliases: every stored table and command line, the save going well or not
InitAlias ==
    \/ InitAll({1000}, ExesUsual, {BasicTfs}, {NoFault}, {LaunchOk},
               StoredAll({<<>>}, {<<>>}, {<<>>, <<"/d">>}, AliasTables \cup {NoAliases}),
               AliasArgvs, BOOLEAN, {TRUE}, {UsualEnv}, {UsualDirs}, {{}})
    \/ InitBasic

Spec == Init /\ [][Next]_vars
SpecAlias == InitAlias /\ [][Next]_vars
SpecInstall == InitInstall /\ [][Next]_vars
SpecSettings == InitSettings /\ [][Next]_vars
SpecNR == InitNR /\ [][Next]_vars
SpecResolve == InitResolve /\ [][Next]_vars

(***************************************************************************)
(* Properties.                                                             *)
(***************************************************************************)
\* the needs_root calls made so far in the current shell_file call, of a
\* process that is not root
UserCalls == IF uid = RootUid THEN {} ELSE Range(nrlog)

\* os.stat(statpath) in needs_root(f) raises: a failure of the call, or no
\* such path
StatFails(f) == StatFault(f) # "none" \/ ~PathExists(StatPath(f))

\* C1: for a process that is not root, needs_root(path) is false for every
\* existing path the user can write to, whoever owns it (stat not failing).
C1_WritableNeedsNoRoot ==
    \A e \in UserCalls :
        (PathExists(e.path) /\ can_write(e.path) /\ ~StatFails(e.path))
            => e.result = FALSE

\* C2: for a process that is not root, needs_root(path) is true for every
\* existing path that uid 0 owns and the user cannot write to.
C2_RootOwnedClosedNeedsRoot ==
    \A e \in UserCalls :
        (PathExists(e.path) /\ Attr(e.path).owner = RootUid /\ ~can_write(e.path))
            => e.result = TRUE

C2_Witness ==
    \E e \in UserCalls :
        /\ PathExists(e.path) /\ Attr(e.path).owner = RootUid /\ ~can_write(e.path)
        /\ StatFault(e.path) = "none"
        /\ e.result = TRUE

\* C3: for a process that is not root and a path that does not exist,
\* needs_root(path) is false when the parent directory is writable and true
\* when it is not, whoever owns the parent (stat not failing).
C3_NewFileFollowsParentAccess ==
    \A e \in UserCalls :
        (~PathExists(e.path) /\ ~StatFails(e.path))
            => e.result = ~can_write(StatPath(e.path))

\* C4: for a process that is not root, needs_root returns true whenever the
\* stat of the path it classifies fails, with OSError or any other exception
\* (it returns: the exception does not leave it).
C4_StatFailureNeedsRoot ==
    \A e \in UserCalls : StatFails(e.path) => e.result = TRUE

C4_Witness ==
    \E e \in UserCalls : StatFault(e.path) = "Exception" /\ e.result = TRUE

\* some file of the batch needs root
AnyNeedsRoot(files) ==
    \E i \in 1..Len(files) : needs_root(files[i], StatFault(files[i]))

\* number of places of cmd that hold word
Occurrences(cmd, word) == Cardinality({i \in 1..Len(cmd) : cmd[i] = word})

\* the elevation command is found: the first word of the stored value is a
\* file or a link, as it is or under /usr/bin; with nothing stored, one of
\* the common commands is
ElevFound ==
    IF settings.elevcmd = <<>>
    THEN \E i \in 1..Len(lst_elevs) : FileOrLink("/usr/bin/" \o lst_elevs[i])
    ELSE \/ FileOrLink(SplitOn(settings.elevcmd, " ")[1])
         \/ FileOrLink(PathJoin("/usr/bin", SplitOn(settings.elevcmd, " ")[1]))

\* the same for the editor
EditorFound ==
    IF settings.editor = <<>>
    THEN \E i \in 1..Len(lst_editors) : FileOrLink("/usr/bin/" \o lst_editors[i])
    ELSE \/ FileOrLink(SplitWs(settings.editor)[1])
         \/ FileOrLink(PathJoin("/usr/bin", SplitWs(settings.editor)[1]))

\* the editor that is found is a regular file (shell_file, line 1076)
EditorUsable == EditorFound /\ IsFile(editor_path(get_editor.args[1]))

\* C5: when needs_root is true for a file of the batch, the one command run
\* for the batch starts with the elevation command, holds it once, and holds
\* every file of the batch; when it is true for none, the command starts with
\* the editor and holds no elevation command.
C5_BatchElevatedOnce ==
    \A l \in Range(launched) :
        IF AnyNeedsRoot(l.files)
        THEN /\ SubSeq(l.cmd, 1, Len(get_elevcmd.args)) = get_elevcmd.args
             /\ Occurrences(l.cmd, get_elevcmd.args[1]) = 1
             /\ l.cmd[Len(get_elevcmd.args) + 1] = l.editor[1]
             /\ Range(l.files) \subseteq Range(l.cmd)
        ELSE /\ l.cmd[1] = l.editor[1]
             /\ Occurrences(l.cmd, get_elevcmd.args[1]) = 0

C5_Witness ==
    \E l \in Range(launched) :
        /\ Len(l.files) = 2
        /\ ~needs_root(l.files[1], StatFault(l.files[1]))
        /\ needs_root(l.files[2], StatFault(l.files[2]))
        /\ l.cmd[1] = "/usr/bin/sudo"
        /\ Range(l.files) \subseteq Range(l.cmd)

C7_ElevationFirstEditorNext ==
    \A l \in Range(launched) :
        /\ AnyNeedsRoot(l.files) =>
              /\ ElevFound
              /\ l.cmd[1] = get_elevcmd.args[1]
              /\ FileOrLink(l.cmd[1])
              /\ l.cmd[Len(get_elevcmd.args) + 1] = editor_path(get_editor.args[1])
              /\ IsFile(editor_path(get_editor.args[1]))
        /\ ( /\ settings.elevcmd = <<"/usr/bin/sudo">>
             /\ Len(get_editor.args) = 1
             /\ EDITORARGS = <<>>
             /\ Len(l.files) = 1
             /\ Attr(l.files[1]) = [kind |-> "file", owner |-> RootUid, writable |-> FALSE] )
           => l.cmd = <<"/usr/bin/sudo", editor_path(get_editor.args[1]), l.files[1]>>

C7_Witness ==
    /\ settings.elevcmd = <<"/usr/bin/sudo">>
    /\ \E l \in Range(launched) : l.cmd = <<"/usr/bin/sudo", "/usr/bin/kate", "/d/a">>

\* C8: with no editor stored, /usr/bin/kate a file and no /usr/bin/subl, the
\* command that opens one existing file the user can write to starts with
\* /usr/bin/kate, ends with the file and has no elevation command before it.
C8_DefaultEditorNoElevation ==
    \A l \in Range(launched) :
        ( /\ settings.editor = <<>>
          /\ IsFile("/usr/bin/kate")
          /\ Kind("/usr/bin/subl") = "none"
          /\ Len(l.files) = 1
          /\ PathExists(l.files[1])
          /\ can_write(l.files[1]) )
        => /\ l.cmd[1] = "/usr/bin/kate"
           /\ l.cmd[Len(l.cmd)] = l.files[1]
           /\ l.elev = <<>>

C10_FailedLaunchNonZero ==
    (pc = "done" /\ \E l \in Range(launched) : ~ChildRan(l)) => exitcode # 0

\* C11: when the user answers no at the prompt about a missing file (one
\* process for all files, no --quiet), nothing is launched and the exit
\* status is neither 0 nor 1.
C11_DeclineExitsDistinct ==
    (pc = "done" /\ how = "return_none")
        => (launched = <<>> /\ exitcode \notin {0, 1})

\* the setsave calls of the current run
SavesOfRun == {e \in Range(saved) : e.run = runs}

\* the command line of the run sets the editor or the elevation command
SetterGiven == CEDITARGS # <<>> /\ CEDITARGS[1] \in {"-e", "-c"} /\ Len(CEDITARGS) = 2

SetterOpt == IF CEDITARGS[1] = "-e" THEN "editor" ELSE "elevcmd"

\* the first word of the value names a file, as given or under /usr/bin
FirstWordIsFile(val) ==
    /\ SplitWs(Pieces(val)) # <<>>
    /\ \/ IsFile(SplitWs(Pieces(val))[1])
       \/ IsFile(PathJoin("/usr/bin", SplitWs(Pieces(val))[1]))

\* the value is what is stored, as given or with its first word under
\* /usr/bin
ResolvesToStored(opt, val) ==
    /\ SplitWs(Pieces(val)) # <<>>
    /\ \/ settings[opt] = Pieces(val)
       \/ /\ ~IsFile(SplitWs(Pieces(val))[1])
          /\ IsFile(PathJoin("/usr/bin", SplitWs(Pieces(val))[1]))
          /\ settings[opt] = Join([SplitWs(Pieces(val)) EXCEPT
                                     ![1] = PathJoin("/usr/bin", @)], " ")

\* C12: setting the editor or the elevation command to the value that is
\* stored, given as it is stored or by the bare name of its /usr/bin path,
\* reports "already set" and does not call setsave.
C12_SameValueIsNoOp ==
    (pc = "done" /\ SetterGiven /\ ResolvesToStored(SetterOpt, CEDITARGS[2]))
        => /\ Line(SetterOpt, <<"already set">>) \in Range(printed)
           /\ SavesOfRun = {}

\* the search directories were cleared and not set again
PathsCleared ==
    \E i \in 1..Len(saved) :
        /\ saved[i].opt = "paths" /\ saved[i].val = <<>> /\ saved[i].ok
        /\ \A j \in (i + 1)..Len(saved) : ~(saved[j].opt = "paths" /\ saved[j].ok)

\* C13: once the search directories are cleared, get_cedit_paths returns the
\* empty list, in the run that cleared them and in a later run (whose
\* CEDITPATHS is empty, too), and a listing shows paths as not set.
C13_ClearedPathsStayUnset ==
    PathsCleared =>
        /\ get_cedit_paths = <<>>
        /\ CEDITPATHS = <<>>
        /\ (pc = "done" /\ Command = "list") =>
              \A l \in Range(printed) :
                  l.opt = "paths" => l.val = <<"(not set yet!)">>

C13_Witness ==
    /\ PathsCleared
    /\ runs = 2 /\ pc = "done" /\ Command = "list"
    /\ Line("paths", <<"(not set yet!)">>) \in Range(printed)

\* C16: when the save of a settings command fails the command returns 1 and
\* the search directories in memory are those of the settings file.
C16_FailedSaveKeepsSettings ==
    (pc = "done" /\ \E e \in SavesOfRun : ~e.ok)
        => /\ exitcode = 1
           /\ Command = "dirs" => CEDITPATHS = get_cedit_paths

\* C18: -e and -c save a value only when its first word names a file, as
\* given or under /usr/bin; with any other value, the empty one and blanks
\* included, nothing is saved or launched, the run returns 1 and no
\* exception ends it.
C18_SetterValidates ==
    (pc = "done" /\ runs = 1 /\ SetterGiven) =>
        /\ how # "exception"
        /\ SavesOfRun # {} => FirstWordIsFile(CEDITARGS[2])
        /\ ~FirstWordIsFile(CEDITARGS[2]) =>
              (exitcode = 1 /\ SavesOfRun = {} /\ launched = <<>>)

\* a command cedit is found on PATH, or at the place the link would go to
Resolvable ==
    \/ \E i \in 1..Len(osenv.path) : PathJoin(osenv.path[i], NAME) \in links
    \/ install_location.res = "return" /\ PathJoin(install_location.loc, NAME) \in links

\* C14: cmd_install, started where a command cedit is already found on PATH
\* or at the final path of the link, ends at once with a non-zero status:
\* it asks for no confirmation and creates no link.
C14_AlreadyInstalledAborts ==
    [][(pc = "main" /\ Command = "install" /\ Resolvable)
          => (pc' = "done" /\ exitcode' > 0 /\ links' = links /\ asked' = asked)]_vars

C14_Witness ==
    /\ pc = "done" /\ Command = "install" /\ runs = 1
    /\ Line("install", <<"already installed">>) \in Range(printed)
    /\ asked = <<>> /\ exitcode = 1
    /\ links = {"/p/cedit"}

\* the user answered yes
SaidYes(e) == e.answer \in {"yes", "Y"}

\* C15: the installer goes from the choice of the directory and the check
\* for an installed command to the confirmation and from there to the link;
\* a link is created or removed only in a run whose confirmation was
\* answered yes, and any other answer leaves the links as they are and
\* returns 1.
C15_ConfirmedBeforeChange ==
    [][/\ links' # links =>
            /\ asked' = asked /\ asked # <<>> /\ SaidYes(asked[Len(asked)])
            /\ pc \in {"install_symlink", "remove_unlink"}
       /\ pc' = "install_symlink" => pc = "install_confirm"
       /\ pc' = "install_confirm" => (pc = "main" /\ Command = "install")
       /\ pc' = "remove_unlink" => pc = "remove_confirm"
       /\ pc' = "remove_confirm" => (pc = "main" /\ Command = "remove")
       /\ (Len(asked') > Len(asked) /\ ~SaidYes(asked'[Len(asked')]))
            => (links' = links /\ pc' = "done" /\ exitcode' = 1)]_vars

C15_Witness ==
    /\ pc = "done" /\ Command = "install" /\ exitcode = 0
    /\ asked = <<[what |-> "install", answer |-> "yes"]>>
    /\ links = {"/usr/local/bin/cedit"}

\* C19: no run of the installer ends by an exception; an install for the
\* user that finds no bin directory of the user returns 1.
C19_InstallerNeverRaises ==
    (pc = "done" /\ Command = "install") => (how = "return" /\ exitcode \in {0, 1})

\* the names given to an open command, and whether the first is an alias
GivenNames == DropArgPass(argd.filename)

AliasGiven ==
    /\ pc = "main" /\ Command = "open"
    /\ GivenNames # <<>>
    /\ GivenNames[1] \in DOMAIN settings.aliases
    /\ settings.aliases[GivenNames[1]] # <<>>

\* C17: when the first name of an open command is an alias, main is entered
\* again with the parse of the alias's saved arguments followed by the other
\* names of the command line, in that order; the step opens nothing (the
\* alias name is no file of the command) and leaves the stored aliases as
\* they are.
C17_AliasExpandsInOrder ==
    [][(AliasGiven /\ depth < MaxDepth) =>
          LET given == settings.aliases[GivenNames[1]] \o Tail(GivenNames)
          IN  /\ CEDITARGS' = init_editor_args(given).cedit
              /\ EDITORARGS' = init_editor_args(given).editor
              /\ argd' = docopt(CEDITARGS')
              /\ pc' = "main" /\ depth' = depth + 1
              /\ launched' = launched /\ filenames' = filenames /\ batch' = batch
              /\ settings' = settings]_vars

\* the alias x of the file c was given with /d/a after it, and the editor
\* was launched on both
C17_Witness ==
    /\ depth = 1
    /\ settings.aliases = ("x" :> <<"c">>)
    /\ CEDITARGS = <<"c", "/d/a">>
    /\ pc = "done"
    /\ launched # <<>>

\* C20: a run that was given an alias ends by the return or the exit of the
\* command the alias stands for, after finitely many expansions: never by
\* the exception that ends an expansion without end.
C20_AliasExpansionEnds ==
    (pc = "done" /\ depth > 0) => how # "exception"

\* C21: with --shellall every launched command has one file, and main
\* returns 0 exactly when a command was launched for every file of the
\* command line and every one of them ran; a file the user declined, or one
\* whose launch failed, makes main return 1.
C21_ShellAllZeroIffAllOpened ==
    (pc = "done" /\ InShellAll /\ how = "return")
        => /\ \A l \in Range(launched) : Len(l.files) = 1
           /\ exitcode \in {0, 1}
           /\ exitcode = 0 <=> /\ Len(launched) = Len(filenames)
                               /\ \A l \in Range(launched) : ChildRan(l)

====
